---------------------------- MODULE Spec2Model ----------------------------
(***************************************************************************)
(* A model of src/Reflect.ts (reflect-metadata v0.1.12 as adapted for      *)
(* Deno): the [[Metadata]] registry, the ordinary metadata operations, the *)
(* exported wrappers, the metadata decorator factory and decorate.         *)
(*                                                                         *)
(* ECMAScript values are records [tag, id]; tag is the language type       *)
(* (Reflect.ts:842-850) and id tells values of one type apart.  For a      *)
(* primitive, id is the text "" + x yields, so ToString is a change of     *)
(* tag.  For an object, id names an entry of the host heap.                *)
(***************************************************************************)
EXTENDS Integers, Sequences, FiniteSets, TLC

VARIABLES
    Metadata,   \* the WeakMap of Reflect.ts:56-59: target id -> member key -> MetadataMap
    pre,        \* history: Metadata as it was when the last call started
    last,       \* history: the last exported call, its arguments and its outcome
    threads     \* SpecInterleaved: where a define and a delete run step by step stand

vars == <<Metadata, pre, last, threads>>

----------------------------------------------------------------------------
(* ECMAScript values                                                       *)

Undefined == [tag |-> "Undefined", id |-> "undefined"]
Null      == [tag |-> "Null", id |-> "null"]
True      == [tag |-> "Boolean", id |-> "true"]
False     == [tag |-> "Boolean", id |-> "false"]
Num(s)    == [tag |-> "Number", id |-> s]
Str(s)    == [tag |-> "String", id |-> s]
Sym(s)    == [tag |-> "Symbol", id |-> s]
Obj(s)    == [tag |-> "Object", id |-> s]

Bool(b) == IF b THEN True ELSE False

\* The receiver of a method call, as the result of a host method that
\* returns `this` (Object.prototype.valueOf).
This == Obj("this")

----------------------------------------------------------------------------
(* The host object graph the code inspects: typeof, [[Prototype]], own     *)
(* properties, and for a host method the value a call returns.             *)

NoProps == [n \in {} |-> Undefined]

HostObject(typ, proto, props, ret) ==
    [typeof |-> typ, proto |-> proto, props |-> props, ret |-> ret]

ObjIds ==
    { "Op", "Object", "Fp", "A", "Ap", "B", "Bp", "E", "Ep", "S", "Sp", "Sq",
      "N", "Np", "Nq", "P", "Pp", "Pq", "Q", "Qp", "Qq", "Z", "Zp",
      "D1", "D2", "KO", "KP", "KB", "KBad",
      "fToStr", "fValueOf", "fToStrF", "fM", "fOne" }

Heap ==
    [ i \in ObjIds |->
        CASE i = "Op" ->      \* Object.prototype
               HostObject("object", Null,
                   ("constructor" :> Obj("Object") @@ "toString" :> Obj("fToStr")
                      @@ "valueOf" :> Obj("fValueOf")), Undefined)
          [] i = "Object" ->  \* the Object constructor
               HostObject("function", Obj("Fp"), ("prototype" :> Obj("Op")), Undefined)
          [] i = "Fp" ->      \* Function.prototype
               HostObject("function", Obj("Op"), ("toString" :> Obj("fToStrF")), Undefined)
          [] i = "A" ->       \* class A {}
               HostObject("function", Obj("Fp"), ("prototype" :> Obj("Ap")), Undefined)
          [] i = "Ap" ->
               HostObject("object", Obj("Op"), ("constructor" :> Obj("A")), Undefined)
          [] i = "B" ->       \* class B extends A {} with the constructor linked to A
               HostObject("function", Obj("A"), ("prototype" :> Obj("Bp")), Undefined)
          [] i = "Bp" ->
               HostObject("object", Obj("Ap"), ("constructor" :> Obj("B")), Undefined)
          [] i = "E" ->       \* ES5 output of class E extends A: only E.prototype is linked
               HostObject("function", Obj("Fp"), ("prototype" :> Obj("Ep")), Undefined)
          [] i = "Ep" ->
               HostObject("object", Obj("Ap"), ("constructor" :> Obj("E")), Undefined)
          [] i = "S" ->       \* S.prototype.__proto__.constructor is S itself
               HostObject("function", Obj("Fp"), ("prototype" :> Obj("Sp")), Undefined)
          [] i = "Sp" ->
               HostObject("object", Obj("Sq"), NoProps, Undefined)
          [] i = "Sq" ->
               HostObject("object", Obj("Op"), ("constructor" :> Obj("S")), Undefined)
          [] i = "N" ->       \* N.prototype.__proto__.constructor is not a function
               HostObject("function", Obj("Fp"), ("prototype" :> Obj("Np")), Undefined)
          [] i = "Np" ->
               HostObject("object", Obj("Nq"), NoProps, Undefined)
          [] i = "Nq" ->
               HostObject("object", Obj("Op"), ("constructor" :> Num("1")), Undefined)
          [] i = "P" ->       \* P.prototype.__proto__.constructor is Q
               HostObject("function", Obj("Fp"), ("prototype" :> Obj("Pp")), Undefined)
          [] i = "Pp" ->
               HostObject("object", Obj("Pq"), NoProps, Undefined)
          [] i = "Pq" ->
               HostObject("object", Obj("Op"), ("constructor" :> Obj("Q")), Undefined)
          [] i = "Q" ->       \* Q.prototype.__proto__.constructor is P
               HostObject("function", Obj("Fp"), ("prototype" :> Obj("Qp")), Undefined)
          [] i = "Qp" ->
               HostObject("object", Obj("Qq"), NoProps, Undefined)
          [] i = "Qq" ->
               HostObject("object", Obj("Op"), ("constructor" :> Obj("P")), Undefined)
          [] i = "Z" ->       \* Z.prototype = Object.create(null)
               HostObject("function", Obj("Fp"), ("prototype" :> Obj("Zp")), Undefined)
          [] i = "Zp" ->
               HostObject("object", Null, NoProps, Undefined)
          [] i = "D1" ->      \* property descriptors
               HostObject("object", Obj("Op"), NoProps, Undefined)
          [] i = "D2" ->
               HostObject("object", Obj("Op"), NoProps, Undefined)
          [] i = "KO" ->      \* { toString() { return "m" } }
               HostObject("object", Obj("Op"), ("toString" :> Obj("fM")), Undefined)
          [] i = "KP" ->      \* { [Symbol.toPrimitive]() { return 1 } }
               HostObject("object", Obj("Op"), ("@@toPrimitive" :> Obj("fOne")), Undefined)
          [] i = "KB" ->      \* { toString() { return "m" }, valueOf() { return 1 } }
               HostObject("object", Obj("Op"),
                   ("toString" :> Obj("fM") @@ "valueOf" :> Obj("fOne")), Undefined)
          [] i = "KBad" ->    \* Object.create(null)
               HostObject("object", Null, NoProps, Undefined)
          [] i = "fToStr" ->  \* Object.prototype.toString
               HostObject("function", Obj("Fp"), NoProps, Str("[object Object]"))
          [] i = "fValueOf" -> \* Object.prototype.valueOf
               HostObject("function", Obj("Fp"), NoProps, This)
          [] i = "fToStrF" -> \* Function.prototype.toString
               HostObject("function", Obj("Fp"), NoProps, Str("function"))
          [] i = "fM" ->
               HostObject("function", Obj("Fp"), NoProps, Str("m"))
          [] i = "fOne" ->
               HostObject("function", Obj("Fp"), NoProps, Num("1")) ]

\* const functionPrototype = Object.getPrototypeOf(Function)
functionPrototype == Obj("Fp")

ObjectPrototype == Obj("Op")

\* Object.getPrototypeOf(O), O an object
GetPrototypeOf(O) == Heap[O.id].proto

\* typeof x
TypeOf(x) ==
    CASE x.tag = "Object"    -> Heap[x.id].typeof
      [] x.tag = "Null"      -> "object"
      [] x.tag = "Undefined" -> "undefined"
      [] x.tag = "Boolean"   -> "boolean"
      [] x.tag = "String"    -> "string"
      [] x.tag = "Symbol"    -> "symbol"
      [] x.tag = "Number"    -> "number"

\* O[P]: the own property, else the one inherited along [[Prototype]]
RECURSIVE Get(_, _)
GetFrom(h, P) ==
    IF P \in DOMAIN h.props THEN h.props[P]
    ELSE IF h.proto = Null THEN Undefined
    ELSE Get(h.proto, P)

Get(O, P) == GetFrom(Heap[O.id], P)

\* f.call(thisArg) for a host method
ReturnOf(ret, thisArg) == IF ret = This THEN thisArg ELSE ret

Call(f, thisArg) == ReturnOf(Heap[f.id].ret, thisArg)

----------------------------------------------------------------------------
(* Type tests and conversions, Reflect.ts:852-1039                         *)

Type(x) == x.tag

IsUndefined(x) == x = Undefined

IsNull(x) == x = Null

IsSymbol(x) == TypeOf(x) = "symbol"

\* Mutant of IsObjectOfType: null, whose typeof is "object", passes
IsObjectWithNull(x, typeof) == typeof \in {"object", "function"}

IsObjectOfType(x, typeof) ==
    IF typeof = "object" THEN x # Null ELSE typeof = "function"

IsObject(x) == IsObjectOfType(x, TypeOf(x))

IsCallable(x) == TypeOf(x) = "function"

IsConstructor(x) == TypeOf(x) = "function"

IsPropertyKey(x) == Type(x) \in {"String", "Symbol"}

\* ToString of Reflect.ts:977-979 ("" + argument); TLC already names a ToString
ToStringOf(x) == Str(x.id)

\* ToBoolean(argument), for the values the model holds
ToBoolean(x) ==
    /\ x \notin {Undefined, Null, False}
    /\ x \notin {Num("0"), Str("")}

toPrimitiveSymbol == "@@toPrimitive"

\* A conversion either yields a value or throws a TypeError.
Returned(v) == [threw |-> FALSE, val |-> v]
Thrown == [threw |-> TRUE, val |-> Undefined]

\* GetMethod(V, P), from the value func of V[P]
GetMethodOf(func) ==
    IF func = Undefined \/ func = Null THEN Returned(Undefined)
    ELSE IF ~IsCallable(func) THEN Thrown
    ELSE Returned(func)

GetMethod(V, P) == GetMethodOf(Get(V, P))

\* if (!IsObject(result)) return result, else go on (to a throw, in the end)
PrimitiveResult(result) == IF ~IsObject(result) THEN Returned(result) ELSE Thrown

\* One attempt of OrdinaryToPrimitive: call the method when it is callable
\* and take its result when that is not an object.
TryCall(method, O) ==
    IF IsCallable(method) THEN PrimitiveResult(Call(method, O)) ELSE Thrown

TryMethod(O, name) == TryCall(Get(O, name), O)

OrElse(first, second) == IF ~first.threw THEN first ELSE second

OrdinaryToPrimitive(O, hint) ==
    IF hint = "string"
    THEN OrElse(TryMethod(O, "toString"), TryMethod(O, "valueOf"))
    ELSE OrElse(TryMethod(O, "valueOf"), TryMethod(O, "toString"))

HintOf(PreferredType) ==
    IF PreferredType = "String" THEN "string"
    ELSE IF PreferredType = "Number" THEN "number"
    ELSE "default"

\* ToPrimitive for an object, exoticToPrim being what GetMethod gave
ToPrimitiveVia(input, hint, exoticToPrim) ==
    IF exoticToPrim.threw THEN Thrown
    ELSE IF exoticToPrim.val # Undefined
         THEN PrimitiveResult(Call(exoticToPrim.val, input))
    ELSE OrdinaryToPrimitive(input, IF hint = "default" THEN "number" ELSE hint)

ToPrimitive(input, PreferredType) ==
    IF Type(input) # "Object" THEN Returned(input)
    ELSE ToPrimitiveVia(input, HintOf(PreferredType), GetMethod(input, toPrimitiveSymbol))

\* ToPropertyKey, from the outcome key of ToPrimitive
PropertyKeyOf(key) ==
    IF key.threw THEN Thrown
    ELSE IF IsSymbol(key.val) THEN Returned(key.val)
    ELSE Returned(ToStringOf(key.val))

\* Mutant of ToPropertyKey: the primitive is taken with the number hint
ToPropertyKeyPrefersNumber(argument) == PropertyKeyOf(ToPrimitive(argument, "Number"))

ToPropertyKey(argument) == PropertyKeyOf(ToPrimitive(argument, "String"))

----------------------------------------------------------------------------
(* The host Map: insertion ordered, one entry per key.  A MetadataMap is a *)
(* sequence of [key, value] entries in insertion order.                    *)

EmptyMap == << >>

MapSize(m) == Len(m)

MapHas(m, k) == \E i \in 1..Len(m) : m[i].key = k

MapIndex(m, k) == CHOOSE i \in 1..Len(m) : m[i].key = k

MapGet(m, k) == IF MapHas(m, k) THEN m[MapIndex(m, k)].value ELSE Undefined

\* Mutant of MapSet: an existing key keeps its old value
MapSetKeepsOld(m, k, v) ==
    IF MapHas(m, k) THEN m ELSE Append(m, [key |-> k, value |-> v])

\* Mutant of MapSet: an existing key moves to the end
MapSetMovesToEnd(m, k, v) ==
    Append(SelectSeq(m, LAMBDA e : e.key # k), [key |-> k, value |-> v])

\* Map.prototype.set: an existing key keeps its position
MapSet(m, k, v) ==
    IF MapHas(m, k)
    THEN [m EXCEPT ![MapIndex(m, k)] = [key |-> k, value |-> v]]
    ELSE Append(m, [key |-> k, value |-> v])

\* Map.prototype.delete: the map without the entry of k
\* Mutant of MapDelete: the entry stays, holding undefined
MapDeleteKeepsSlot(m, k) ==
    [ i \in 1..Len(m) |-> IF m[i].key = k THEN [key |-> k, value |-> Undefined] ELSE m[i] ]

MapDelete(m, k) ==
    IF MapHas(m, k)
    THEN SubSeq(m, 1, MapIndex(m, k) - 1) \o SubSeq(m, MapIndex(m, k) + 1, Len(m))
    ELSE m

\* Map.prototype.keys, iterated to its end
MapKeys(m) == [i \in 1..Len(m) |-> m[i].key]

----------------------------------------------------------------------------
(* The registry.  md is a function from target ids to TargetEntries; a     *)
(* TargetEntry is a function from member keys (Undefined, a string or a    *)
(* symbol) to MetadataMaps.  A key outside the domain has no container.    *)

EmptyRegistry == [t \in {} |-> << >>]

EmptyTargetEntry == [p \in {} |-> << >>]

\* f with x mapped to v, x added to the domain when new
Put(f, x, v) == [y \in DOMAIN f \cup {x} |-> IF y = x THEN v ELSE f[y]]

\* f without x
Remove(f, x) == [y \in DOMAIN f \ {x} |-> f[y]]

\* GetOrCreateMetadataMap(O, P, false): the MetadataMap, or found = FALSE
LookupMetadataMap(md, O, P) ==
    IF O.id \notin DOMAIN md THEN [found |-> FALSE, map |-> EmptyMap]
    ELSE IF P \notin DOMAIN md[O.id] THEN [found |-> FALSE, map |-> EmptyMap]
    ELSE [found |-> TRUE, map |-> md[O.id][P]]

\* GetOrCreateMetadataMap(O, P, true): the registry with the containers of
\* (O, P) in place
CreateMetadataMap(md, O, P) ==
    LET withTarget == IF O.id \in DOMAIN md THEN md
                      ELSE Put(md, O.id, EmptyTargetEntry)
    IN  IF P \in DOMAIN withTarget[O.id] THEN withTarget
        ELSE Put(withTarget, O.id, Put(withTarget[O.id], P, EmptyMap))

OrdinaryHasOwnMetadata(md, MetadataKey, O, P) ==
    LET metadataMap == LookupMetadataMap(md, O, P)
    IN  IF ~metadataMap.found THEN FALSE
        ELSE MapHas(metadataMap.map, MetadataKey)

OrdinaryGetOwnMetadata(md, MetadataKey, O, P) ==
    LET metadataMap == LookupMetadataMap(md, O, P)
    IN  IF ~metadataMap.found THEN Undefined
        ELSE MapGet(metadataMap.map, MetadataKey)

OrdinaryDefineOwnMetadata(md, MetadataKey, MetadataValue, O, P) ==
    LET created == CreateMetadataMap(md, O, P)
    IN  Put(created, O.id,
            Put(created[O.id], P, MapSet(created[O.id][P], MetadataKey, MetadataValue)))

OrdinaryOwnMetadataKeys(md, O, P) ==
    LET metadataMap == LookupMetadataMap(md, O, P)
    IN  IF ~metadataMap.found THEN << >>
        ELSE MapKeys(metadataMap.map)

----------------------------------------------------------------------------
(* Parent resolution, Reflect.ts:1077-1107                                 *)

\* prototype && Object.getPrototypeOf(prototype).  The prototype property of
\* every function of the heap is an object or is missing.
PrototypeProto(prototype) ==
    IF ToBoolean(prototype) THEN GetPrototypeOf(prototype) ELSE prototype

\* Mutant of HeritageFrom: a constructor that is O itself is trusted
HeritageFromTrustsSelf(O, proto, constructor) ==
    IF TypeOf(constructor) # "function" THEN proto ELSE constructor

\* Lines 1099-1106: the declared constructor, when it can be trusted
HeritageFrom(O, proto, constructor) ==
    IF TypeOf(constructor) # "function" THEN proto
    ELSE IF constructor = O THEN proto
    ELSE constructor

\* Mutant of Heritage: no heritage gives no parent
HeritageOrNull(O, proto, prototypeProto) ==
    IF prototypeProto \in {Null, Undefined} \/ prototypeProto = ObjectPrototype
    THEN Null
    ELSE HeritageFrom(O, proto, Get(prototypeProto, "constructor"))

\* Lines 1092-1106
Heritage(O, proto, prototypeProto) ==
    IF prototypeProto \in {Null, Undefined} \/ prototypeProto = ObjectPrototype
    THEN proto
    ELSE HeritageFrom(O, proto, Get(prototypeProto, "constructor"))

\* Mutant of ParentOf: the ordinary predecessor is always the parent
ParentOfKeepsProto(O, proto) == proto

\* Lines 1079-1106, proto being Object.getPrototypeOf(O)
ParentOf(O, proto) ==
    IF TypeOf(O) # "function" \/ O = functionPrototype THEN proto
    ELSE IF proto # functionPrototype THEN proto
    ELSE Heritage(O, proto, PrototypeProto(Get(O, "prototype")))

OrdinaryGetPrototypeOf(O) == ParentOf(O, GetPrototypeOf(O))

----------------------------------------------------------------------------
(* Chain-walking operations, Reflect.ts:718-806                            *)

RECURSIVE OrdinaryHasMetadata(_, _, _, _)
HasMetadataOfParent(md, MetadataKey, parent, P) ==
    IF ~IsNull(parent) THEN OrdinaryHasMetadata(md, MetadataKey, parent, P)
    ELSE FALSE

\* Mutant of OrdinaryHasMetadata: the parent is not asked
HasMetadataOwnOnly(md, MetadataKey, O, P) == OrdinaryHasOwnMetadata(md, MetadataKey, O, P)

OrdinaryHasMetadata(md, MetadataKey, O, P) ==
    IF OrdinaryHasOwnMetadata(md, MetadataKey, O, P) THEN TRUE
    ELSE HasMetadataOfParent(md, MetadataKey, OrdinaryGetPrototypeOf(O), P)

RECURSIVE OrdinaryGetMetadata(_, _, _, _)
GetMetadataOfParent(md, MetadataKey, parent, P) ==
    IF ~IsNull(parent) THEN OrdinaryGetMetadata(md, MetadataKey, parent, P)
    ELSE Undefined

\* Mutant of OrdinaryGetMetadata: an own value of undefined counts as none
GetMetadataSkipsUndefined(md, MetadataKey, O, P) ==
    IF OrdinaryGetOwnMetadata(md, MetadataKey, O, P) # Undefined
    THEN OrdinaryGetOwnMetadata(md, MetadataKey, O, P)
    ELSE GetMetadataOfParent(md, MetadataKey, OrdinaryGetPrototypeOf(O), P)

OrdinaryGetMetadata(md, MetadataKey, O, P) ==
    IF OrdinaryHasOwnMetadata(md, MetadataKey, O, P)
    THEN OrdinaryGetOwnMetadata(md, MetadataKey, O, P)
    ELSE GetMetadataOfParent(md, MetadataKey, OrdinaryGetPrototypeOf(O), P)

\* set.has(key)
Seen(keys, key) == \E i \in 1..Len(keys) : keys[i] = key

\* One for-of loop of OrdinaryMetadataKeys: push every key of more that the
\* set does not hold yet.  keys doubles as the set: it holds what was added.
RECURSIVE PushUnseen(_, _)
PushUnseen(keys, more) ==
    IF more = << >> THEN keys
    ELSE PushUnseen(IF ~Seen(keys, Head(more)) THEN Append(keys, Head(more)) ELSE keys,
             Tail(more))

\* Mutant of MergeKeys: the parent's keys are appended as they are
MergeKeysAppendsAll(ownKeys, parentKeys) == ownKeys \o parentKeys

\* Lines 787-805
MergeKeys(ownKeys, parentKeys) ==
    IF Len(parentKeys) <= 0 THEN ownKeys
    ELSE IF Len(ownKeys) <= 0 THEN parentKeys
    ELSE PushUnseen(PushUnseen(<< >>, ownKeys), parentKeys)

RECURSIVE OrdinaryMetadataKeys(_, _, _)
MetadataKeysWithParent(md, ownKeys, parent, P) ==
    IF parent = Null THEN ownKeys
    ELSE MergeKeys(ownKeys, OrdinaryMetadataKeys(md, parent, P))

OrdinaryMetadataKeys(md, O, P) ==
    MetadataKeysWithParent(md, OrdinaryOwnMetadataKeys(md, O, P),
        OrdinaryGetPrototypeOf(O), P)

----------------------------------------------------------------------------
(* The exported wrappers, Reflect.ts:256-650.  Each yields an outcome: did *)
(* it throw, the value returned, the key list returned, the registry left. *)

Outcome(threw, ret, keys, md) ==
    [threw |-> threw, ret |-> ret, keys |-> keys, md |-> md]

Throws(md) == Outcome(TRUE, Undefined, << >>, md)

\* if (!IsUndefined(propertyKey)) propertyKey = ToPropertyKey(propertyKey)
WrapperPropertyKey(propertyKey) ==
    IF ~IsUndefined(propertyKey) THEN ToPropertyKey(propertyKey)
    ELSE Returned(propertyKey)

\* The two opening lines of every wrapper: the target is tested, then the
\* member key is converted (P is the conversion's outcome); body is what
\* the wrapper goes on to do.
Validated(md, target, P, body) ==
    IF ~IsObject(target) THEN Throws(md)
    ELSE IF P.threw THEN Throws(md)
    ELSE body

\* Mutant of defineMetadataAt: the entry is written before the member key
\* is converted
defineMetadataWritesFirst(md, metadataKey, metadataValue, target, P) ==
    IF ~IsObject(target) THEN Throws(md)
    ELSE IF P.threw
    THEN Throws(OrdinaryDefineOwnMetadata(md, metadataKey, metadataValue, target,
             Undefined))
    ELSE Outcome(FALSE, Undefined, << >>,
             OrdinaryDefineOwnMetadata(md, metadataKey, metadataValue, target, P.val))

defineMetadataAt(md, metadataKey, metadataValue, target, P) ==
    Validated(md, target, P,
        Outcome(FALSE, Undefined, << >>,
            OrdinaryDefineOwnMetadata(md, metadataKey, metadataValue, target, P.val)))

defineMetadata(md, metadataKey, metadataValue, target, propertyKey) ==
    defineMetadataAt(md, metadataKey, metadataValue, target,
        WrapperPropertyKey(propertyKey))

hasMetadataAt(md, metadataKey, target, P) ==
    Validated(md, target, P,
        Outcome(FALSE, Bool(OrdinaryHasMetadata(md, metadataKey, target, P.val)),
            << >>, md))

hasMetadata(md, metadataKey, target, propertyKey) ==
    hasMetadataAt(md, metadataKey, target, WrapperPropertyKey(propertyKey))

hasOwnMetadataAt(md, metadataKey, target, P) ==
    Validated(md, target, P,
        Outcome(FALSE, Bool(OrdinaryHasOwnMetadata(md, metadataKey, target, P.val)),
            << >>, md))

hasOwnMetadata(md, metadataKey, target, propertyKey) ==
    hasOwnMetadataAt(md, metadataKey, target, WrapperPropertyKey(propertyKey))

getMetadataAt(md, metadataKey, target, P) ==
    Validated(md, target, P,
        Outcome(FALSE, OrdinaryGetMetadata(md, metadataKey, target, P.val), << >>, md))

getMetadata(md, metadataKey, target, propertyKey) ==
    getMetadataAt(md, metadataKey, target, WrapperPropertyKey(propertyKey))

getOwnMetadataAt(md, metadataKey, target, P) ==
    Validated(md, target, P,
        Outcome(FALSE, OrdinaryGetOwnMetadata(md, metadataKey, target, P.val), << >>, md))

getOwnMetadata(md, metadataKey, target, propertyKey) ==
    getOwnMetadataAt(md, metadataKey, target, WrapperPropertyKey(propertyKey))

getMetadataKeysAt(md, target, P) ==
    Validated(md, target, P,
        Outcome(FALSE, Undefined, OrdinaryMetadataKeys(md, target, P.val), md))

getMetadataKeys(md, target, propertyKey) ==
    getMetadataKeysAt(md, target, WrapperPropertyKey(propertyKey))

getOwnMetadataKeysAt(md, target, P) ==
    Validated(md, target, P,
        Outcome(FALSE, Undefined, OrdinaryOwnMetadataKeys(md, target, P.val), md))

getOwnMetadataKeys(md, target, propertyKey) ==
    getOwnMetadataKeysAt(md, target, WrapperPropertyKey(propertyKey))

\* Mutant of PruneContainers: the test of line 643 inverted
PruneContainersReportsFalse(md, target, P) ==
    IF target.id \in DOMAIN md THEN Outcome(FALSE, False, << >>, md)
    ELSE Outcome(FALSE, True, << >>, md)

\* Mutant of PruneContainers: the target's entry goes with its emptied map
PruneContainersDropsTarget(md, target, P) ==
    Outcome(FALSE, True, << >>, Remove(md, target.id))

\* Mutant of PruneContainers: the emptied map is left in place
PruneContainersKeepsMap(md, target, P) == Outcome(FALSE, True, << >>, md)

\* Lines 642-649 of deleteMetadata: the last key of the map of (target, P)
\* is gone; md holds the emptied map.
PruneContainers(md, target, P) ==
    IF target.id \notin DOMAIN md THEN Outcome(FALSE, False, << >>, md)
    ELSE IF Cardinality(DOMAIN md[target.id] \ {P}) > 0
         THEN Outcome(FALSE, True, << >>, Put(md, target.id, Remove(md[target.id], P)))
    ELSE Outcome(FALSE, True, << >>, Remove(md, target.id))

\* Lines 640-641: metadataMap.delete(metadataKey) on the map the registry
\* holds, shrunk being that map afterwards
DeleteFromMap(md, metadataKey, target, P, metadataMap, shrunk) ==
    IF ~MapHas(metadataMap, metadataKey) THEN Outcome(FALSE, False, << >>, md)
    ELSE IF MapSize(shrunk) > 0
         THEN Outcome(FALSE, True, << >>, Put(md, target.id, Put(md[target.id], P, shrunk)))
    ELSE PruneContainers(Put(md, target.id, Put(md[target.id], P, shrunk)), target, P)

\* Lines 634-639
DeleteOwnMetadata(md, metadataKey, target, P, metadataMap) ==
    IF ~metadataMap.found THEN Outcome(FALSE, False, << >>, md)
    ELSE DeleteFromMap(md, metadataKey, target, P, metadataMap.map,
             MapDelete(metadataMap.map, metadataKey))

deleteMetadataAt(md, metadataKey, target, P) ==
    Validated(md, target, P,
        DeleteOwnMetadata(md, metadataKey, target, P.val,
            LookupMetadataMap(md, target, P.val)))

deleteMetadata(md, metadataKey, target, propertyKey) ==
    deleteMetadataAt(md, metadataKey, target, WrapperPropertyKey(propertyKey))

----------------------------------------------------------------------------
(* Decorators.  A decorator function is a record: the closure metadata(k,  *)
(* v) returns (kind "metadata"), or a function of the caller that returns  *)
(* a fixed value and touches nothing (kind "return").                      *)

\* metadata(metadataKey, metadataValue), Reflect.ts:190-201
metadata(metadataKey, metadataValue) ==
    [kind |-> "metadata", key |-> metadataKey, value |-> metadataValue]

\* a caller's decorator: function () { return value }
Returning(value) == [kind |-> "return", key |-> Undefined, value |-> value]

\* Mutant of decorator: the member key is dropped
decoratorIgnoresMember(md, metadataKey, metadataValue, target, propertyKey) ==
    IF ~IsObject(target) THEN Throws(md)
    ELSE IF ~IsUndefined(propertyKey) /\ ~IsPropertyKey(propertyKey) THEN Throws(md)
    ELSE Outcome(FALSE, Undefined, << >>,
             OrdinaryDefineOwnMetadata(md, metadataKey, metadataValue, target, Undefined))

\* function decorator(target, propertyKey) of metadata, Reflect.ts:193-199
decorator(md, metadataKey, metadataValue, target, propertyKey) ==
    IF ~IsObject(target) THEN Throws(md)
    ELSE IF ~IsUndefined(propertyKey) /\ ~IsPropertyKey(propertyKey) THEN Throws(md)
    ELSE Outcome(FALSE, Undefined, << >>,
             OrdinaryDefineOwnMetadata(md, metadataKey, metadataValue, target, propertyKey))

\* A call of the decorator record d
Invoke(md, d, target, propertyKey) ==
    IF d.kind = "metadata" THEN decorator(md, d.key, d.value, target, propertyKey)
    ELSE Outcome(FALSE, d.value, << >>, md)

\* What decorate leaves: did it throw, the value returned, the loop's
\* current value when it ended, the calls made (in run order), the registry.
Decorated(threw, ret, current, calls, md) ==
    [threw |-> threw, ret |-> ret, current |-> current, calls |-> calls, md |-> md]

\* One call of a decorator: its index in the list and what it was handed
CallRecord(i, target, propertyKey, current) ==
    [index |-> i, target |-> target, propertyKey |-> propertyKey, current |-> current]

\* The loop of DecorateConstructor from index i down, Reflect.ts:656-664;
\* r is the outcome of decorator(target)
RECURSIVE DecorateConstructorFrom(_, _, _, _, _)
\* Mutant of ConstructorDecorated: any object is taken as the replacement
ConstructorDecoratedTakesObjects(decorators, target, i, calls, r) ==
    IF r.threw THEN Decorated(TRUE, Undefined, target, calls, r.md)
    ELSE IF ~IsUndefined(r.ret) /\ ~IsNull(r.ret)
    THEN IF ~IsObject(r.ret)
         THEN Decorated(TRUE, Undefined, target, calls, r.md)
         ELSE DecorateConstructorFrom(r.md, decorators, r.ret, i - 1, calls)
    ELSE DecorateConstructorFrom(r.md, decorators, target, i - 1, calls)

ConstructorDecorated(decorators, target, i, calls, r) ==
    IF r.threw THEN Decorated(TRUE, Undefined, target, calls, r.md)
    ELSE IF ~IsUndefined(r.ret) /\ ~IsNull(r.ret)
    THEN IF ~IsConstructor(r.ret)
         THEN Decorated(TRUE, Undefined, target, calls, r.md)
         ELSE DecorateConstructorFrom(r.md, decorators, r.ret, i - 1, calls)
    ELSE DecorateConstructorFrom(r.md, decorators, target, i - 1, calls)

\* Mutant of DecorateConstructorFrom: the list is walked first to last
DecorateConstructorForward(md, decorators, target, i, calls) ==
    IF i < 1 THEN Decorated(FALSE, target, target, calls, md)
    ELSE ConstructorDecorated(decorators, target, i,
             Append(calls, CallRecord(Len(decorators) - i + 1, target, Undefined, target)),
             Invoke(md, decorators[Len(decorators) - i + 1], target, Undefined))

DecorateConstructorFrom(md, decorators, target, i, calls) ==
    IF i < 1 THEN Decorated(FALSE, target, target, calls, md)
    ELSE ConstructorDecorated(decorators, target, i,
             Append(calls, CallRecord(i, target, Undefined, target)),
             Invoke(md, decorators[i], target, Undefined))

DecorateConstructor(md, decorators, target) ==
    DecorateConstructorFrom(md, decorators, target, Len(decorators), << >>)

\* The loop of DecorateProperty from index i down, Reflect.ts:673-681;
\* r is the outcome of decorator(target, propertyKey, descriptor)
RECURSIVE DecoratePropertyFrom(_, _, _, _, _, _, _)
PropertyDecorated(decorators, target, propertyKey, descriptor, i, calls, r) ==
    IF r.threw THEN Decorated(TRUE, Undefined, descriptor, calls, r.md)
    ELSE IF ~IsUndefined(r.ret) /\ ~IsNull(r.ret)
    THEN IF ~IsObject(r.ret)
         THEN Decorated(TRUE, Undefined, descriptor, calls, r.md)
         ELSE DecoratePropertyFrom(r.md, decorators, target, propertyKey, r.ret,
                  i - 1, calls)
    ELSE DecoratePropertyFrom(r.md, decorators, target, propertyKey, descriptor,
             i - 1, calls)

DecoratePropertyFrom(md, decorators, target, propertyKey, descriptor, i, calls) ==
    IF i < 1 THEN Decorated(FALSE, descriptor, descriptor, calls, md)
    ELSE PropertyDecorated(decorators, target, propertyKey, descriptor, i,
             Append(calls, CallRecord(i, target, propertyKey, descriptor)),
             Invoke(md, decorators[i], target, propertyKey))

DecorateProperty(md, decorators, target, propertyKey, descriptor) ==
    DecoratePropertyFrom(md, decorators, target, propertyKey, descriptor,
        Len(decorators), << >>)

\* The decorators argument: an array of decorator records, or a value that
\* is no array.
ArrayOf(items) == [array |-> TRUE, items |-> items]
NotAnArray == [array |-> FALSE, items |-> << >>]

IsArray(argument) == argument.array

DecorateThrows(md) == Decorated(TRUE, Undefined, Undefined, << >>, md)

\* Mutant of decorateMember: the descriptor is not tested
decorateMemberSkipsDescriptor(md, decorators, target, P, attributes) ==
    IF ~IsArray(decorators) THEN DecorateThrows(md)
    ELSE IF ~IsObject(target) THEN DecorateThrows(md)
    ELSE IF P.threw THEN DecorateThrows(md)
    ELSE DecorateProperty(md, decorators.items, target, P.val,
             IF IsNull(attributes) THEN Undefined ELSE attributes)

\* Lines 123-137, P being the outcome of ToPropertyKey(propertyKey)
decorateMember(md, decorators, target, P, attributes) ==
    IF ~IsArray(decorators) THEN DecorateThrows(md)
    ELSE IF ~IsObject(target) THEN DecorateThrows(md)
    ELSE IF ~IsObject(attributes) /\ ~IsUndefined(attributes) /\ ~IsNull(attributes)
         THEN DecorateThrows(md)
    ELSE IF P.threw THEN DecorateThrows(md)
    ELSE DecorateProperty(md, decorators.items, target, P.val,
             IF IsNull(attributes) THEN Undefined ELSE attributes)

\* decorate(decorators, target, propertyKey, attributes), Reflect.ts:116-146
decorate(md, decorators, target, propertyKey, attributes) ==
    IF ~IsUndefined(propertyKey)
    THEN decorateMember(md, decorators, target, ToPropertyKey(propertyKey), attributes)
    ELSE IF ~IsArray(decorators) THEN DecorateThrows(md)
         ELSE IF ~IsConstructor(target) THEN DecorateThrows(md)
         ELSE DecorateConstructor(md, decorators.items, target)

----------------------------------------------------------------------------
(* Bounds                                                                  *)

\* Spec: the registry holds at most this many entries.
MaxEntries == 2

\* SpecKeys: the registry holds at most this many entries.
MaxKeyEntries == 4

\* SpecDecorate: decorate is called with lists of at most this many decorators.
MaxDecorators == 3

RECURSIVE SumLen(_, _)
SumLenFrom(f, S, x) == Len(f[x]) + SumLen(f, S \ {x})

SumLen(f, S) == IF S = {} THEN 0 ELSE SumLenFrom(f, S, CHOOSE y \in S : TRUE)

RECURSIVE EntryCountOver(_, _)
EntryCountFrom(md, T, t) == SumLen(md[t], DOMAIN md[t]) + EntryCountOver(md, T \ {t})

EntryCountOver(md, T) ==
    IF T = {} THEN 0 ELSE EntryCountFrom(md, T, CHOOSE y \in T : TRUE)

\* The number of (target, member, key) entries the registry holds
EntryCount(md) == EntryCountOver(md, DOMAIN md)

\* The step taken leaves at most n entries, or no more than there were.
Within(n) ==
    EntryCount(Metadata') <= n \/ EntryCount(Metadata') <= EntryCount(Metadata)

----------------------------------------------------------------------------
(* The chain walks recurse on the parent until it is null, Reflect.ts:      *)
(* 718-728, 744-754, 782-806: on a parent relation with a cycle the         *)
(* recursion has no end and the call never returns.                         *)

\* The walk from O ends within fuel parent steps
RECURSIVE WalkEndsWithin(_, _)
WalkEndsWithin(O, fuel) ==
    IF IsNull(O) THEN TRUE
    ELSE IF fuel = 0 THEN FALSE
    ELSE WalkEndsWithin(OrdinaryGetPrototypeOf(O), fuel - 1)

\* The walk from O ends: a walk that ends visits no object twice
WalkEnds(O) == WalkEndsWithin(O, Cardinality(ObjIds))

----------------------------------------------------------------------------
(* The state machine: one action per exported function.  A call runs to    *)
(* its end in one step and leaves its outcome in last; Return hands        *)
(* control back to the caller, who may then make the next call.            *)

NoDecorators == ArrayOf(<< >>)

CallOf(op, k, v, t, p, ds, at, threw, ret, keys, current, calls) ==
    [op |-> op, key |-> k, value |-> v, target |-> t, member |-> p,
     decorators |-> ds, attributes |-> at,
     threw |-> threw, ret |-> ret, keys |-> keys, current |-> current, calls |-> calls]

NoCall ==
    CallOf("none", Undefined, Undefined, Undefined, Undefined, NoDecorators,
        Undefined, FALSE, Undefined, << >>, Undefined, << >>)

\* A store call and its outcome r
StoreCall(op, k, v, t, p, r) ==
    CallOf(op, k, v, t, p, NoDecorators, Undefined,
        r.threw, r.ret, r.keys, Undefined, << >>)

\* A define that is not running.  While it runs: the key it writes, whether
\* the TargetEntry and the MetadataMap it holds are still the ones in the
\* registry, and, as history, whether a step of a delete fell between its
\* steps and whether its key was in the registry when it had written.
DefinerIdle ==
    [pc |-> "idle", key |-> Undefined, targetMetadata |-> FALSE, metadataMap |-> FALSE,
     overlapped |-> FALSE, owned |-> FALSE]

\* A delete that is not running.  While it runs: the key it deletes; at its
\* end, what it returns.
DeleterIdle == [pc |-> "idle", key |-> Undefined, ret |-> Undefined]

NoneRunning == [definer |-> DefinerIdle, deleter |-> DeleterIdle]

Init ==
    /\ Metadata = EmptyRegistry
    /\ pre = EmptyRegistry
    /\ last = NoCall
    /\ threads = NoneRunning

\* No call is under way: the caller has control.
Idle == last = NoCall

Step(md, call) ==
    /\ Idle
    /\ Metadata' = md
    /\ pre' = Metadata
    /\ last' = call
    /\ UNCHANGED threads

\* A store call op with outcome r
StoreStep(op, k, v, t, p, r) == Step(r.md, StoreCall(op, k, v, t, p, r))

DefineMetadataCall(k, v, t, p) ==
    StoreStep("defineMetadata", k, v, t, p, defineMetadata(Metadata, k, v, t, p))

HasMetadataCall(k, t, p) ==
    StoreStep("hasMetadata", k, Undefined, t, p, hasMetadata(Metadata, k, t, p))

HasOwnMetadataCall(k, t, p) ==
    StoreStep("hasOwnMetadata", k, Undefined, t, p, hasOwnMetadata(Metadata, k, t, p))

GetMetadataCall(k, t, p) ==
    StoreStep("getMetadata", k, Undefined, t, p, getMetadata(Metadata, k, t, p))

GetOwnMetadataCall(k, t, p) ==
    StoreStep("getOwnMetadata", k, Undefined, t, p, getOwnMetadata(Metadata, k, t, p))

GetMetadataKeysCall(t, p) ==
    StoreStep("getMetadataKeys", Undefined, Undefined, t, p,
        getMetadataKeys(Metadata, t, p))

GetOwnMetadataKeysCall(t, p) ==
    StoreStep("getOwnMetadataKeys", Undefined, Undefined, t, p,
        getOwnMetadataKeys(Metadata, t, p))

DeleteMetadataCall(k, t, p) ==
    StoreStep("deleteMetadata", k, Undefined, t, p, deleteMetadata(Metadata, k, t, p))

\* metadata(k, v)(t, p): the decorator called by the caller's own code
MetadataDecoratorCall(k, v, t, p) ==
    StoreStep("metadata", k, v, t, p, Invoke(Metadata, metadata(k, v), t, p))

\* A decorate call with outcome r
DecorateStep(ds, t, p, at, r) ==
    Step(r.md, CallOf("decorate", Undefined, Undefined, t, p, ds, at,
                   r.threw, r.ret, << >>, r.current, r.calls))

DecorateCall(ds, t, p, at) ==
    DecorateStep(ds, t, p, at, decorate(Metadata, ds, t, p, at))

Return ==
    /\ ~Idle
    /\ last' = NoCall
    /\ pre' = Metadata
    /\ UNCHANGED <<Metadata, threads>>

----------------------------------------------------------------------------
(* Spec: the store, called with every kind of target and member key.       *)

\* the targets written to: a chain B -> A -> Function.prototype, and a number
Targets == { Obj("B"), Obj("A"), Obj("Fp"), Num("1") }

\* the targets read from: E besides, whose parent is found through
\* E.prototype
ReadTargets == Targets \cup { Obj("E") }

\* no member, a string, an object whose toString yields "m", and an object
\* that has no primitive value
MemberKeys == { Undefined, Str("m"), Obj("KO"), Obj("KBad") }

MetadataKeys == { Str("k1"), Str("k2") }

MetadataValues == { Str("v"), Undefined }

Next ==
    \/ Idle /\ \E k \in MetadataKeys, v \in MetadataValues, t \in Targets, p \in MemberKeys :
           DefineMetadataCall(k, v, t, p) /\ Within(MaxEntries)
    \/ Idle /\ \E k \in MetadataKeys, v \in MetadataValues, t \in Targets, p \in MemberKeys :
           MetadataDecoratorCall(k, v, t, p) /\ Within(MaxEntries)
    \/ Idle /\ \E k \in MetadataKeys, t \in Targets, p \in MemberKeys :
           DeleteMetadataCall(k, t, p)
    \/ Idle /\ \E k \in MetadataKeys, t \in ReadTargets, p \in MemberKeys :
           HasMetadataCall(k, t, p)
    \/ Idle /\ \E k \in MetadataKeys, t \in ReadTargets, p \in MemberKeys :
           HasOwnMetadataCall(k, t, p)
    \/ Idle /\ \E k \in MetadataKeys, t \in ReadTargets, p \in MemberKeys :
           GetMetadataCall(k, t, p)
    \/ Idle /\ \E k \in MetadataKeys, t \in ReadTargets, p \in MemberKeys :
           GetOwnMetadataCall(k, t, p)
    \/ Idle /\ \E t \in ReadTargets, p \in MemberKeys : GetMetadataKeysCall(t, p)
    \/ Idle /\ \E t \in ReadTargets, p \in MemberKeys : GetOwnMetadataKeysCall(t, p)
    \/ Return

Spec == Init /\ [][Next]_vars

----------------------------------------------------------------------------
(* SpecKeys: key lists.  Three keys on a target and its parent, no member. *)

KeyTargets == { Obj("B"), Obj("A") }

ListedKeys == { Str("X"), Str("Y"), Str("Z") }

ListedValues == { Str("v"), Str("w") }

NextKeys ==
    \/ Idle /\ \E k \in ListedKeys, v \in ListedValues, t \in KeyTargets :
           DefineMetadataCall(k, v, t, Undefined) /\ Within(MaxKeyEntries)
    \/ Idle /\ \E k \in ListedKeys, t \in KeyTargets : DeleteMetadataCall(k, t, Undefined)
    \/ Idle /\ \E t \in KeyTargets : GetMetadataKeysCall(t, Undefined)
    \/ Idle /\ \E t \in KeyTargets : GetOwnMetadataKeysCall(t, Undefined)
    \/ Return

SpecKeys == Init /\ [][NextKeys]_vars

----------------------------------------------------------------------------
(* SpecDecorate: decorate, with every list of up to MaxDecorators          *)
(* decorators, beside the store calls of one key and one value.            *)

DecoratedTargets == { Obj("A"), Obj("B"), Num("1") }

\* targets of the constructor variant: also an object that is no function
ConstructorTargets == DecoratedTargets \cup { Obj("D1") }

DecoratedMembers == { Undefined, Str("m"), Obj("KBad") }

\* descriptors handed to decorate: none, null, an object, a number
Attributes == { Undefined, Null, Obj("D2"), Num("1") }

\* Decorators returning nothing, null, a constructor, an object that is no
\* function, a number; and the decorator of metadata("k1", "v")
Decorators ==
    { Returning(Undefined), Returning(Null), Returning(Obj("B")), Returning(Obj("D1")),
      Returning(Num("1")), metadata(Str("k1"), Str("v")) }

DecoratorLists ==
    { ArrayOf(l) : l \in UNION { [1..n -> Decorators] : n \in 0..MaxDecorators } }
        \cup { NotAnArray }

NextDecorate ==
    \/ Idle /\ \E ds \in DecoratorLists, t \in ConstructorTargets :
           DecorateCall(ds, t, Undefined, Undefined)
    \/ Idle /\ \E ds \in DecoratorLists, t \in DecoratedTargets,
          p \in DecoratedMembers \ {Undefined}, at \in Attributes :
           DecorateCall(ds, t, p, at)
    \/ Idle /\ \E t \in DecoratedTargets, p \in DecoratedMembers :
           \/ DefineMetadataCall(Str("k1"), Str("v"), t, p)
           \/ MetadataDecoratorCall(Str("k1"), Str("v"), t, p)
           \/ DeleteMetadataCall(Str("k1"), t, p)
           \/ HasMetadataCall(Str("k1"), t, p)
           \/ HasOwnMetadataCall(Str("k1"), t, p)
           \/ GetMetadataCall(Str("k1"), t, p)
           \/ GetOwnMetadataCall(Str("k1"), t, p)
           \/ GetMetadataKeysCall(t, p)
           \/ GetOwnMetadataKeysCall(t, p)
    \/ Return

SpecDecorate == Init /\ [][NextDecorate]_vars

----------------------------------------------------------------------------
(* SpecHeritage: the chain reads on constructors and objects of every kind *)
(* of heritage.  A read whose walk has no end never returns: it has no     *)
(* next state.                                                             *)

\* the targets that are given metadata: a class, Function.prototype,
\* Object.prototype, and a constructor on a cycle of parents
HeritageOwners == { Obj("A"), Obj("Fp"), Obj("Op"), Obj("P") }

HeritageTargets ==
    { Obj("A"), Obj("B"), Obj("E"), Obj("S"), Obj("N"), Obj("Z"), Obj("P"), Obj("Q"),
      Obj("Ap"), Obj("Bp"), Obj("Fp"), Obj("fM") }

NextHeritage ==
    \/ Idle /\ \E t \in HeritageOwners : DefineMetadataCall(Str("k1"), Str("v"), t, Undefined)
    \/ Idle /\ \E t \in HeritageOwners : DeleteMetadataCall(Str("k1"), t, Undefined)
    \/ Idle /\ \E t \in HeritageTargets :
           WalkEnds(t) /\ HasMetadataCall(Str("k1"), t, Undefined)
    \/ Idle /\ \E t \in HeritageTargets :
           WalkEnds(t) /\ GetMetadataCall(Str("k1"), t, Undefined)
    \/ Idle /\ \E t \in HeritageTargets :
           WalkEnds(t) /\ GetMetadataKeysCall(t, Undefined)
    \/ Idle /\ \E t \in HeritageTargets : GetOwnMetadataCall(Str("k1"), t, Undefined)
    \/ Return

SpecHeritage == Init /\ [][NextHeritage]_vars

----------------------------------------------------------------------------
(* SpecMemberKeys: the own-metadata wrappers called with member keys of     *)
(* every kind, and with metadata keys that differ only in type.             *)

\* no member, 1, "1", an object with Symbol.toPrimitive giving 1, an object
\* with toString giving "m" and valueOf giving 1, "m", a symbol
SuppliedMembers ==
    { Undefined, Num("1"), Str("1"), Obj("KP"), Obj("KB"), Str("m"), Sym("y") }

\* the metadata keys 1 and "1"
LookalikeKeys == { Num("1"), Str("1") }

NextMemberKeys ==
    \/ Idle /\ \E k \in LookalikeKeys, p \in SuppliedMembers :
           DefineMetadataCall(k, Str("v"), Obj("A"), p)
    \/ Idle /\ \E k \in LookalikeKeys, p \in SuppliedMembers :
           DeleteMetadataCall(k, Obj("A"), p)
    \/ Idle /\ \E k \in LookalikeKeys, p \in SuppliedMembers :
           GetOwnMetadataCall(k, Obj("A"), p)
    \/ Idle /\ \E k \in LookalikeKeys, p \in SuppliedMembers :
           HasOwnMetadataCall(k, Obj("A"), p)
    \/ Return

SpecMemberKeys == Init /\ [][NextMemberKeys]_vars

----------------------------------------------------------------------------
(* SpecInterleaved: OrdinaryDefineOwnMetadata and deleteMetadata on one     *)
(* (target, member), each run one statement group at a time with the other *)
(* free to run in between, as on a host with parallel threads.  The maps   *)
(* are objects: what a thread holds stays with it when the registry lets   *)
(* go of it.                                                               *)

RaceTarget == Obj("A")

RaceMember == Undefined

RaceKeys == { Str("k1"), Str("k2") }

Definer == threads.definer

Deleter == threads.deleter

\* The delete is between two of its steps
Deleting == Deleter.pc \notin {"idle", "done"}

\* The define is between two of its steps
Defining == Definer.pc \in {"gotTarget", "gotMap"}

RaceStep(md, definer, deleter) ==
    /\ Metadata' = md
    /\ threads' = [definer |-> definer, deleter |-> deleter]
    /\ UNCHANGED <<pre, last>>

\* The define as a step of the delete leaves it: detachedEntry and
\* detachedMap tell whether the step took the TargetEntry, the MetadataMap
\* out of the registry
DefinerBeside(detachedEntry, detachedMap) ==
    [Definer EXCEPT !.targetMetadata = @ /\ ~detachedEntry,
                    !.metadataMap = @ /\ ~detachedMap,
                    !.overlapped = @ \/ Defining]

\* GetOrCreateMetadataMap(O, P, true), lines 701-706: the TargetEntry is
\* looked up, and created when there is none
DefineGetTarget(k) ==
    /\ Definer.pc = "idle"
    /\ RaceStep(IF RaceTarget.id \in DOMAIN Metadata THEN Metadata
                ELSE Put(Metadata, RaceTarget.id, EmptyTargetEntry),
           [pc |-> "gotTarget", key |-> k, targetMetadata |-> TRUE,
            metadataMap |-> FALSE, overlapped |-> Deleting, owned |-> FALSE],
           Deleter)

\* Lines 707-713: the MetadataMap is looked up in the TargetEntry held, and
\* created there when there is none
DefineGetMap ==
    /\ Definer.pc = "gotTarget"
    /\ RaceStep(IF Definer.targetMetadata
                     /\ RaceMember \notin DOMAIN Metadata[RaceTarget.id]
                THEN Put(Metadata, RaceTarget.id,
                         Put(Metadata[RaceTarget.id], RaceMember, EmptyMap))
                ELSE Metadata,
           [Definer EXCEPT !.pc = "gotMap", !.metadataMap = Definer.targetMetadata],
           Deleter)

\* Mutant of WriteToHeld: the entry goes to a copy of the map
WriteToCopy(md, k, v, attached) == md

\* metadataMap.set(MetadataKey, MetadataValue), line 777, on the map held:
\* the registry shows the entry when the map is still in it
WriteToHeld(md, k, v, attached) ==
    IF attached
    THEN Put(md, RaceTarget.id,
             Put(md[RaceTarget.id], RaceMember,
                 MapSet(md[RaceTarget.id][RaceMember], k, v)))
    ELSE md

DefineWritten(md) ==
    RaceStep(md,
        [Definer EXCEPT !.pc = "done",
                        !.owned = OrdinaryHasOwnMetadata(md, Definer.key, RaceTarget,
                                      RaceMember)],
        Deleter)

DefineWrite ==
    /\ Definer.pc = "gotMap"
    /\ DefineWritten(WriteToHeld(Metadata, Definer.key, Str("v"), Definer.metadataMap))

DefineReturn ==
    /\ Definer.pc = "done"
    /\ RaceStep(Metadata, DefinerIdle, Deleter)

\* deleteMetadata, lines 634-639
DeleteLookup(k) ==
    /\ Deleter.pc = "idle"
    /\ RaceStep(Metadata, DefinerBeside(FALSE, FALSE),
           IF LookupMetadataMap(Metadata, RaceTarget, RaceMember).found
           THEN [pc |-> "found", key |-> k, ret |-> Undefined]
           ELSE [pc |-> "done", key |-> k, ret |-> False])

\* Lines 640-641, shrunk being the map after metadataMap.delete(metadataKey)
DeleteRemoved(deleted, shrunk) ==
    RaceStep(Put(Metadata, RaceTarget.id,
                 Put(Metadata[RaceTarget.id], RaceMember, shrunk)),
        DefinerBeside(FALSE, FALSE),
        IF ~deleted THEN [Deleter EXCEPT !.pc = "done", !.ret = False]
        ELSE IF MapSize(shrunk) > 0 THEN [Deleter EXCEPT !.pc = "done", !.ret = True]
        ELSE [Deleter EXCEPT !.pc = "emptied"])

DeleteRemove ==
    /\ Deleter.pc = "found"
    /\ DeleteRemoved(MapHas(Metadata[RaceTarget.id][RaceMember], Deleter.key),
           MapDelete(Metadata[RaceTarget.id][RaceMember], Deleter.key))

\* Lines 642-647, pruned being the TargetEntry after
\* targetMetadata.delete(propertyKey)
DeletePrunedMap(pruned) ==
    RaceStep(Put(Metadata, RaceTarget.id, pruned),
        DefinerBeside(FALSE, TRUE),
        IF Cardinality(DOMAIN pruned) > 0 THEN [Deleter EXCEPT !.pc = "done", !.ret = True]
        ELSE [Deleter EXCEPT !.pc = "prunedMap"])

DeletePruneMap ==
    /\ Deleter.pc = "emptied"
    /\ DeletePrunedMap(Remove(Metadata[RaceTarget.id], RaceMember))

\* Lines 648-649: Metadata.delete(target)
DeletePruneTarget ==
    /\ Deleter.pc = "prunedMap"
    /\ RaceStep(Remove(Metadata, RaceTarget.id), DefinerBeside(TRUE, TRUE),
           [Deleter EXCEPT !.pc = "done", !.ret = True])

DeleteReturn ==
    /\ Deleter.pc = "done"
    /\ RaceStep(Metadata, Definer, DeleterIdle)

NextInterleaved ==
    \/ \E k \in RaceKeys : DefineGetTarget(k)
    \/ DefineGetMap
    \/ DefineWrite
    \/ DefineReturn
    \/ \E k \in RaceKeys : DeleteLookup(k)
    \/ DeleteRemove
    \/ DeletePruneMap
    \/ DeletePruneTarget
    \/ DeleteReturn

SpecInterleaved == Init /\ [][NextInterleaved]_vars

----------------------------------------------------------------------------
(* SpecTargets: every exported store function and the metadata decorator,  *)
(* called with a target of every type.                                     *)

\* undefined, null, a boolean, a number, a string, a symbol
PrimitiveTargets ==
    { Undefined, Null, True, Num("1"), Str("s"), Sym("y") }

AnyTargets == { Obj("A"), Obj("B") } \cup PrimitiveTargets

AnyMembers == { Undefined, Str("m"), Obj("KBad") }

NextTargets ==
    \/ Idle /\ \E t \in AnyTargets, p \in AnyMembers :
           \/ DefineMetadataCall(Str("k1"), Str("v"), t, p)
           \/ MetadataDecoratorCall(Str("k1"), Str("v"), t, p)
           \/ DeleteMetadataCall(Str("k1"), t, p)
           \/ HasMetadataCall(Str("k1"), t, p)
           \/ HasOwnMetadataCall(Str("k1"), t, p)
           \/ GetMetadataCall(Str("k1"), t, p)
           \/ GetOwnMetadataCall(Str("k1"), t, p)
           \/ GetMetadataKeysCall(t, p)
           \/ GetOwnMetadataKeysCall(t, p)
    \/ Return

SpecTargets == Init /\ [][NextTargets]_vars

----------------------------------------------------------------------------
(* What the claims speak of                                                *)

\* The member key a wrapper uses for the one the last call was given
LastMember == WrapperPropertyKey(last.member).val

\* Every object of the heap can be a target.
AllTargets == { Obj(i) : i \in ObjIds }

\* The member keys under which the specifications store metadata
Slots == { Undefined, Str("m") }

AllMetadataKeys == MetadataKeys \cup ListedKeys

\* The call left no error and was op.
Completed(op) == last.op = op /\ ~last.threw

\* What a read wrapper that does not throw yields
Yields(ret, md) == Outcome(FALSE, ret, << >>, md)

YieldsKeys(keys, md) == Outcome(FALSE, Undefined, keys, md)

\* C1: right after defineMetadata(key, value, target, member) completes,
\* getOwnMetadata(key, target, member) returns exactly value and
\* hasOwnMetadata(key, target, member) is true, whatever value the key had on
\* (target, member) before.
C1_DefineThenGetOwn ==
    Completed("defineMetadata") =>
        /\ getOwnMetadata(Metadata, last.key, last.target, last.member)
               = Yields(last.value, Metadata)
        /\ hasOwnMetadata(Metadata, last.key, last.target, last.member)
               = Yields(True, Metadata)

\* A define that overwrote another value of the key on the same (target, member)
C1_Witness ==
    /\ Completed("defineMetadata")
    /\ OrdinaryHasOwnMetadata(pre, last.key, last.target, LastMember)
    /\ OrdinaryGetOwnMetadata(pre, last.key, last.target, LastMember) # last.value
    /\ getOwnMetadata(Metadata, last.key, last.target, last.member).ret = last.value

\* C2: deleteMetadata(key, target, member) returns true exactly when
\* hasOwnMetadata(key, target, member) was true just before the call, false
\* otherwise, and after the call hasOwnMetadata(key, target, member) is false.
C2_DeleteReturnsHadOwn ==
    Completed("deleteMetadata") =>
        /\ last.ret = hasOwnMetadata(pre, last.key, last.target, last.member).ret
        /\ hasOwnMetadata(Metadata, last.key, last.target, last.member)
               = Yields(False, Metadata)

\* A delete that removed the only key of its target and returned true
C2_Witness ==
    /\ Completed("deleteMetadata")
    /\ last.ret = True
    /\ OrdinaryHasOwnMetadata(pre, last.key, last.target, LastMember)
    /\ last.target.id \notin DOMAIN Metadata

\* The targets on T's resolved parent chain, T first
RECURSIVE ParentChain(_)
ParentChain(T) ==
    IF T = Null THEN << >> ELSE <<T>> \o ParentChain(OrdinaryGetPrototypeOf(T))

\* The positions of the chain whose target owns K under member m
OwnersOn(chain, md, K, m) ==
    { i \in 1..Len(chain) : OrdinaryHasOwnMetadata(md, K, chain[i], m) }

Least(S) == CHOOSE i \in S : \A j \in S : i <= j

\* The value stored at the nearest owner, none being undefined
NearestValue(chain, owners, md, K, m) ==
    IF owners = {} THEN Undefined
    ELSE OrdinaryGetOwnMetadata(md, K, chain[Least(owners)], m)

\* C3: for every target T, member m and key K, hasMetadata(K, T, m) is true
\* iff some target on T's resolved parent chain (T included) owns K under m,
\* and getMetadata(K, T, m) is the value stored at the nearest such target,
\* the own value winning also when it is undefined, and is undefined when
\* no target of the chain owns K.
C3_ChainResolution ==
    /\ Completed("hasMetadata") =>
           last.ret = Bool(OwnersOn(ParentChain(last.target), Metadata, last.key,
                               LastMember) # {})
    /\ Completed("getMetadata") =>
           last.ret = NearestValue(ParentChain(last.target),
                          OwnersOn(ParentChain(last.target), Metadata, last.key,
                              LastMember),
                          Metadata, last.key, LastMember)

\* getMetadata(K, B) found the value of parent A, B owning nothing
C3_Witness ==
    /\ Completed("getMetadata")
    /\ last.target = Obj("B")
    /\ last.ret = Str("v")
    /\ ~OrdinaryHasOwnMetadata(Metadata, last.key, Obj("B"), LastMember)
    /\ OrdinaryGetPrototypeOf(Obj("B")) = Obj("A")
    /\ OrdinaryGetOwnMetadata(Metadata, last.key, Obj("A"), LastMember) = Str("v")
    /\ hasMetadata(Metadata, last.key, Obj("B"), last.member).ret = True

\* No key occurs twice in the list.
NoDuplicates(keys) ==
    \A i, j \in 1..Len(keys) : keys[i] = keys[j] => i = j

\* The list after a define of key: as it was when it held key, else with
\* key at its end
AfterDefine(before, key) ==
    IF Seen(before, key) THEN before ELSE Append(before, key)

\* C4: defines alone leave getOwnMetadataKeys(target, member) listing each
\* defined key once, in the order of the keys' first defines.  Stated as the
\* step every define takes from the list before it, the first define
\* starting from the empty list: a key already listed stays where it is,
\* whatever the new value, and a new key goes to the end; no list ever
\* holds a key twice.
C4_OwnKeysInFirstDefineOrder ==
    /\ Completed("defineMetadata") =>
           getOwnMetadataKeys(Metadata, last.target, last.member)
               = YieldsKeys(AfterDefine(OrdinaryOwnMetadataKeys(pre, last.target, LastMember),
                                last.key),
                     Metadata)
    /\ Completed("getOwnMetadataKeys") => NoDuplicates(last.keys)
    /\ Metadata = EmptyRegistry =>
           \A t \in KeyTargets : OrdinaryOwnMetadataKeys(Metadata, t, Undefined) = << >>

\* X, listed before Y and Z, was given another value and kept its place
C4_Witness ==
    /\ Completed("defineMetadata")
    /\ last.key = Str("X")
    /\ OrdinaryOwnMetadataKeys(pre, last.target, LastMember) = <<Str("X"), Str("Y"), Str("Z")>>
    /\ OrdinaryGetOwnMetadata(pre, last.key, last.target, LastMember) # last.value
    /\ OrdinaryOwnMetadataKeys(Metadata, last.target, LastMember)
           = <<Str("X"), Str("Y"), Str("Z")>>

\* The keys of the list that own does not hold, in their order
NotIn(own, keys) == SelectSeq(keys, LAMBDA k : ~Seen(own, k))

\* own, then what the parent adds
OwnThenInherited(md, own, parent, P) ==
    IF parent = Null THEN own
    ELSE own \o NotIn(own, OrdinaryMetadataKeys(md, parent, P))

\* C5: getMetadataKeys(T, m) is getOwnMetadataKeys(T, m) in its own order,
\* followed by the keys of getMetadataKeys(P, m), P the resolved parent of
\* T, that are not listed yet, in their relative order; no key occurs twice.
C5_KeysOwnThenInherited ==
    Completed("getMetadataKeys") =>
        /\ last.keys = OwnThenInherited(Metadata,
                           OrdinaryOwnMetadataKeys(Metadata, last.target, LastMember),
                           OrdinaryGetPrototypeOf(last.target), LastMember)
        /\ NoDuplicates(last.keys)

\* own keys [X, Y] on B and [Y, Z] on its parent A gave [X, Y, Z]
C5_Witness ==
    /\ Completed("getMetadataKeys")
    /\ last.target = Obj("B")
    /\ OrdinaryOwnMetadataKeys(Metadata, Obj("B"), Undefined) = <<Str("X"), Str("Y")>>
    /\ OrdinaryGetPrototypeOf(Obj("B")) = Obj("A")
    /\ OrdinaryMetadataKeys(Metadata, Obj("A"), Undefined) = <<Str("Y"), Str("Z")>>
    /\ last.keys = <<Str("X"), Str("Y"), Str("Z")>>

\* The MetadataMap without the entry of k
Without(map, k) == SelectSeq(map, LAMBDA e : e.key # k)

\* Own metadata of (t, m): whether there is a container, and its entries
OwnMetadata(md, t, m) == LookupMetadataMap(md, t, m)

\* C6: defineMetadata(key, value, target, member) and deleteMetadata(key,
\* target, member) change nothing but the entry of key on (target, member):
\* the other entries of that MetadataMap keep their values and their order,
\* and the own metadata of every other (target', member') is as it was, so
\* after a delete on a child hasMetadata(key, child, member) is still true
\* when a parent owns key.
C6_OnlyTheEntryChanges ==
    (Completed("defineMetadata") \/ Completed("deleteMetadata")) =>
        /\ \A t \in AllTargets, m \in Slots :
               (t # last.target \/ m # LastMember) =>
                   OwnMetadata(Metadata, t, m) = OwnMetadata(pre, t, m)
        /\ Without(OwnMetadata(Metadata, last.target, LastMember).map, last.key)
               = Without(OwnMetadata(pre, last.target, LastMember).map, last.key)
        /\ (/\ last.op = "deleteMetadata"
            /\ OrdinaryGetPrototypeOf(last.target) # Null
            /\ OrdinaryHasMetadata(pre, last.key, OrdinaryGetPrototypeOf(last.target),
                   LastMember))
               => hasMetadata(Metadata, last.key, last.target, last.member)
                      = Yields(True, Metadata)

\* A delete on B removed B's only entry under a member while B keeps
\* metadata of its own under another member and parent A still owns the key
C6_Witness ==
    /\ Completed("deleteMetadata")
    /\ last.ret = True
    /\ last.target = Obj("B")
    /\ last.member = Str("m")
    /\ OrdinaryHasOwnMetadata(Metadata, last.key, Obj("A"), LastMember)
    /\ hasMetadata(Metadata, last.key, Obj("B"), last.member).ret = True
    /\ ~OrdinaryHasOwnMetadata(Metadata, last.key, Obj("B"), LastMember)
    /\ Obj("B").id \in DOMAIN pre

\* What the decorator record d returns when called
ReturnValueOf(d) == IF d.kind = "return" THEN d.value ELSE Undefined

\* A return that is neither absent nor null
Present(value) == value # Undefined /\ value # Null

\* The last decorate call was of the constructor variant
ConstructorVariant == last.member = Undefined

\* The value decorate starts from: the constructor, or the descriptor (a
\* null descriptor counting as none)
InitialValue ==
    IF ConstructorVariant THEN last.target
    ELSE IF last.attributes = Null THEN Undefined ELSE last.attributes

\* The current value after the first j decorators in run order (the last j
\* of the list items of length n): the latest present return, else initial
RECURSIVE Threaded(_, _, _, _)
Threaded(initial, items, n, j) ==
    IF j = 0 THEN initial
    ELSE IF Present(ReturnValueOf(items[n - j + 1]))
         THEN ReturnValueOf(items[n - j + 1])
         ELSE Threaded(initial, items, n, j - 1)

\* The calls run the list items from its last element down, each handed
\* the threaded current value
RunsInReverse(items, calls) ==
    \A j \in 1..Len(calls) :
        /\ calls[j].index = Len(items) - j + 1
        /\ calls[j].current = Threaded(InitialValue, items, Len(items), j - 1)

\* C7: decorate runs the decorators from the last of the list to the
\* first ([D1, D2, D3] runs D3, D2, D1), each receiving the current value
\* (constructor, or descriptor) as the decorators before it left it: a
\* present, non-null return replaces it, an absent or null one leaves it;
\* when all have run the current value is the result, the original one if
\* none replaced it.
C7_DecorateInReverseThreading ==
    last.op = "decorate" =>
        /\ RunsInReverse(last.decorators.items, last.calls)
        /\ ~last.threw =>
               /\ Len(last.calls) = Len(last.decorators.items)
               /\ last.ret = Threaded(InitialValue, last.decorators.items,
                                 Len(last.decorators.items), Len(last.decorators.items))

\* [metadata, returning nothing, returning B] on A: the third ran first on
\* A, the others were handed B, and B is the result
C7_Witness ==
    /\ Completed("decorate")
    /\ ConstructorVariant
    /\ last.target = Obj("A")
    /\ last.decorators.items
           = <<metadata(Str("k1"), Str("v")), Returning(Undefined), Returning(Obj("B"))>>
    /\ Len(last.calls) = 3
    /\ last.calls[1].index = 3 /\ last.calls[1].current = Obj("A")
    /\ last.calls[2].index = 2 /\ last.calls[2].current = Obj("B")
    /\ last.calls[3].index = 1 /\ last.calls[3].current = Obj("B")
    /\ last.ret = Obj("B")

\* The registry holds one entry more than before, or as many
OneEntryWritten(md, before) ==
    EntryCount(md) \in { EntryCount(before), EntryCount(before) + 1 }

\* C8: the decorator of metadata(k, v), applied to (target) or to (target,
\* m), returns nothing and writes the one entry define(k, v, target[, m])
\* writes: getMetadata(k, target[, m]) then returns v, nothing else of the
\* registry changes, so applied to a member it leaves getOwnMetadata(k,
\* target) without member as it was, absent if it was; and
\* decorate([metadata(k, v)], C) returns C itself.
C8_MetadataDecoratorWritesOne ==
    /\ Completed("metadata") =>
           /\ last.ret = Undefined
           /\ Metadata = OrdinaryDefineOwnMetadata(pre, last.key, last.value,
                             last.target, last.member)
           /\ getMetadata(Metadata, last.key, last.target, last.member)
                  = Yields(last.value, Metadata)
           /\ OneEntryWritten(Metadata, pre)
           /\ \A t \in AllTargets, m \in Slots :
                  (t # last.target \/ m # last.member) =>
                      OwnMetadata(Metadata, t, m) = OwnMetadata(pre, t, m)
           /\ Without(OwnMetadata(Metadata, last.target, last.member).map, last.key)
                  = Without(OwnMetadata(pre, last.target, last.member).map, last.key)
    /\ (/\ Completed("decorate")
        /\ ConstructorVariant
        /\ last.decorators.items = <<metadata(Str("k1"), Str("v"))>>) =>
           /\ last.ret = last.target
           /\ getMetadata(Metadata, Str("k1"), last.target, Undefined)
                  = Yields(Str("v"), Metadata)
           /\ OneEntryWritten(Metadata, pre)

\* Applied to (B, "m") where neither B nor its parents held k1: the entry
\* is read back under "m", and B without member still has none
C8_Witness ==
    /\ Completed("metadata")
    /\ last.target = Obj("B")
    /\ last.member = Str("m")
    /\ pre = EmptyRegistry
    /\ getMetadata(Metadata, last.key, Obj("B"), Str("m")).ret = last.value
    /\ getOwnMetadata(Metadata, last.key, Obj("B"), Undefined).ret = Undefined
    /\ ~OrdinaryHasOwnMetadata(Metadata, last.key, Obj("B"), Undefined)

\* The registry after the writes of the metadata decorators among the calls
\* from the j-th on, made in run order
RECURSIVE WritesOf(_, _, _, _)
WritesOf(md, items, calls, j) ==
    IF j > Len(calls) THEN md
    ELSE IF items[calls[j].index].kind = "metadata"
         THEN WritesOf(OrdinaryDefineOwnMetadata(md, items[calls[j].index].key,
                           items[calls[j].index].value, calls[j].target,
                           calls[j].propertyKey),
                  items, calls, j + 1)
         ELSE WritesOf(md, items, calls, j + 1)

\* C9 as the specification states it: whenever a call raises a type error
\* the registry is exactly as it was before the call.
C9_AtomicOnTypeError == last.threw => Metadata = pre

\* C9, amended: defineMetadata, deleteMetadata, the read wrappers, the
\* metadata decorator, and decorate raising while it validates its
\* arguments leave the registry exactly as it was; when decorate raises
\* because a decorator returned an invalid value, the registry is as it was
\* but for the entries written by the decorators that had already run.
C9_AtomicButForDecoratorsRun ==
    last.threw =>
        /\ (last.op # "decorate" \/ last.calls = << >>) => Metadata = pre
        /\ last.op = "decorate" =>
               Metadata = WritesOf(pre, last.decorators.items, last.calls, 1)

\* decorate raised after a metadata decorator had written its entry
C9_Witness ==
    /\ last.op = "decorate"
    /\ last.threw
    /\ last.target = Obj("A")
    /\ last.decorators.items = <<Returning(Num("1")), metadata(Str("k1"), Str("v"))>>
    /\ pre = EmptyRegistry
    /\ OrdinaryHasOwnMetadata(Metadata, Str("k1"), Obj("A"), Undefined)

\* A present return that decorate cannot take as the current value
InvalidReturn(value) ==
    /\ Present(value)
    /\ IF ConstructorVariant THEN ~IsCallable(value) ELSE ~IsObject(value)

\* The positions of the list whose decorator returns an invalid value
InvalidAt(items) == { i \in 1..Len(items) : InvalidReturn(ReturnValueOf(items[i])) }

\* The greatest number of the set
Greatest(S) == CHOOSE x \in S : \A y \in S : y <= x

\* C10: when a decorator that decorate calls returns a value that is
\* present but not callable (constructor variant) or not object-like
\* (member variant), decorate raises a type error right after that call:
\* the call is the last one made, no decorator earlier in the list is
\* called, and the invalid value is never a current value.
C10_InvalidReturnStopsDecorate ==
    (last.op = "decorate" /\ last.calls # << >>) =>
        /\ \A j \in 1..Len(last.calls) :
               /\ ~InvalidReturn(last.calls[j].current)
               /\ InvalidReturn(ReturnValueOf(last.decorators.items[last.calls[j].index])) =>
                      /\ last.threw
                      /\ j = Len(last.calls)
                      /\ last.current = last.calls[j].current
                      /\ \A c \in 1..Len(last.calls) :
                             last.calls[c].index >= last.calls[j].index
        /\ InvalidAt(last.decorators.items) # {} =>
               /\ last.threw
               /\ last.calls[Len(last.calls)].index = Greatest(InvalidAt(last.decorators.items))
        /\ ~InvalidReturn(last.current)

\* [returning B, returning an object that is no function, returning
\* nothing] on A: the second raised, the first was never called
C10_Witness ==
    /\ last.op = "decorate"
    /\ last.threw
    /\ ConstructorVariant
    /\ last.target = Obj("A")
    /\ last.decorators.items
           = <<Returning(Obj("B")), Returning(Obj("D1")), Returning(Undefined)>>
    /\ Len(last.calls) = 2
    /\ last.calls[2].index = 2
    /\ last.current = Obj("A")

\* The arguments of the last decorate call that decorate must reject
InvalidArguments ==
    \/ ~last.decorators.array
    \/ ConstructorVariant /\ TypeOf(last.target) # "function"
    \/ ~ConstructorVariant /\
          \/ ~IsObject(last.target)
          \/ Present(last.attributes) /\ ~IsObject(last.attributes)
          \/ ToPropertyKey(last.member).threw

\* C11: decorate tests its arguments before it calls any decorator: when
\* the list is no array, or the target is not object-like (member variant)
\* or no constructor (constructor variant), or, in the member variant, the
\* descriptor is present but not object-like or the member key has no
\* primitive form, decorate raises a type error and has called none of the
\* decorators.
C11_DecorateValidatesFirst ==
    (last.op = "decorate" /\ InvalidArguments) =>
        /\ last.threw
        /\ last.calls = << >>
        /\ Metadata = pre

\* A valid list and target with a descriptor that is a number: rejected
\* with the metadata decorator of the list not called
C11_Witness ==
    /\ last.op = "decorate"
    /\ last.threw
    /\ last.target = Obj("A")
    /\ last.member = Str("m")
    /\ last.attributes = Num("1")
    /\ last.decorators.items = <<metadata(Str("k1"), Str("v"))>>
    /\ last.calls = << >>
    /\ ~OrdinaryHasOwnMetadata(Metadata, Str("k1"), Obj("A"), Str("m"))

StoreWrappers ==
    { "defineMetadata", "hasMetadata", "hasOwnMetadata", "getMetadata", "getOwnMetadata",
      "getMetadataKeys", "getOwnMetadataKeys", "deleteMetadata" }

\* undefined, null, booleans, numbers, strings and symbols
NotObjectLike(value) == value.tag # "Object"

\* No target of the chain owns key under member m
NoneOwns(chain, md, key, m) ==
    \A i \in 1..Len(chain) : ~OrdinaryHasOwnMetadata(md, key, chain[i], m)

\* No target of the chain owns any key under member m
NoKeysOn(chain, md, m) ==
    \A i \in 1..Len(chain) : OrdinaryOwnMetadataKeys(md, chain[i], m) = << >>

\* The result of the last call is the one that stands for "no metadata"
AbsentResult ==
    /\ last.ret = (IF last.op \in {"hasMetadata", "hasOwnMetadata", "deleteMetadata"}
                   THEN False ELSE Undefined)
    /\ last.keys = << >>

\* The last call read, from a valid target under a valid member key,
\* metadata that neither the target nor (for the chain reads) its parents own
ReadOfAbsent ==
    /\ ~NotObjectLike(last.target)
    /\ ~WrapperPropertyKey(last.member).threw
    /\ \/ /\ last.op \in {"hasMetadata", "getMetadata"}
          /\ NoneOwns(ParentChain(last.target), pre, last.key, LastMember)
       \/ /\ last.op \in {"hasOwnMetadata", "getOwnMetadata", "deleteMetadata"}
          /\ NoneOwns(<<last.target>>, pre, last.key, LastMember)
       \/ /\ last.op = "getMetadataKeys"
          /\ NoKeysOn(ParentChain(last.target), pre, LastMember)
       \/ /\ last.op = "getOwnMetadataKeys"
          /\ NoKeysOn(<<last.target>>, pre, LastMember)

\* C12: every store wrapper and the metadata decorator, called with a
\* target that is undefined, null, a boolean, a number, a string or a
\* symbol, raises a type error and leaves the registry as it was; a read (or
\* a delete) of metadata that a valid target does not have raises nothing
\* and gives the absent, false or empty result.
C12_InvalidTargetThrows ==
    /\ (last.op \in StoreWrappers \cup {"metadata"} /\ NotObjectLike(last.target)) =>
           /\ last.threw
           /\ Metadata = pre
    /\ ReadOfAbsent =>
           /\ ~last.threw
           /\ AbsentResult
           /\ Metadata = pre

\* getMetadata on null raised while the registry held metadata
C12_Witness ==
    /\ last.op = "getMetadata"
    /\ last.target = Null
    /\ last.threw
    /\ Metadata = pre
    /\ OrdinaryHasOwnMetadata(Metadata, Str("k1"), Obj("A"), Undefined)

\* The ordinary predecessor and the resolved parent of every object
PrototypeOf == [ T \in AllTargets |-> GetPrototypeOf(T) ]
ResolvedParentOf == [ T \in AllTargets |-> OrdinaryGetPrototypeOf(T) ]

\* The objects one step of the relation away from those of S
StepFrom(relation, S) == { relation[T] : T \in S } \ { Null }

\* The objects reached from those of S by 1 to n steps of the relation
RECURSIVE ReachedWithin(_, _, _)
ReachedWithin(relation, S, n) ==
    IF n = 0 \/ S = {} THEN {}
    ELSE StepFrom(relation, S) \cup ReachedWithin(relation, StepFrom(relation, S), n - 1)

\* The objects reached from T by one or more steps of the relation
Reached(relation, T) == ReachedWithin(relation, {T}, Cardinality(AllTargets))

Acyclic(relation) == \A T \in AllTargets : T \notin Reached(relation, T)

\* The walk from T meets an object that is reached from itself
MeetsCycle(T) ==
    \E U \in {T} \cup Reached(ResolvedParentOf, T) : U \in Reached(ResolvedParentOf, U)

\* The parent of T was recovered through prototype.__proto__.constructor
Recovered(T) == ResolvedParentOf[T] # PrototypeOf[T]

ChainReads == { "hasMetadata", "getMetadata", "getMetadataKeys" }

DefinedTwice(md, k, v, k2, v2, t) ==
    OrdinaryDefineOwnMetadata(OrdinaryDefineOwnMetadata(md, k, v, t, Undefined),
        k2, v2, t, Undefined)

\* In md, (t, no member) holds exactly k and then k2 with the values v, v2
HoldsExactly(md, k, v, k2, v2, t) ==
    /\ getOwnMetadataKeys(md, t, Undefined).keys
           = (IF k = k2 THEN <<k>> ELSE <<k, k2>>)
    /\ getOwnMetadata(md, k2, t, Undefined).ret = v2
    /\ getOwnMetadata(md, k, t, Undefined).ret = (IF k = k2 THEN v2 ELSE v)
    /\ \A other \in ListedKeys \ {k, k2} :
           /\ hasOwnMetadata(md, other, t, Undefined).ret = False
           /\ getOwnMetadata(md, other, t, Undefined).ret = Undefined

\* C14: when deleteMetadata has removed the only key of (target, member),
\* getOwnMetadataKeys(target, member) is empty and the pair has no container
\* left; defines made from there on the same pair list exactly their own
\* keys in their own order with their own values, whatever the pair held
\* before.
C14_PrunedPairStartsFresh ==
    (/\ Completed("deleteMetadata")
     /\ OrdinaryOwnMetadataKeys(pre, last.target, LastMember) = <<last.key>>) =>
        /\ last.ret = True
        /\ getOwnMetadataKeys(Metadata, last.target, last.member)
               = YieldsKeys(<< >>, Metadata)
        /\ OwnMetadata(Metadata, last.target, LastMember)
               = OwnMetadata(EmptyRegistry, last.target, LastMember)
        /\ \A k \in ListedKeys, k2 \in ListedKeys, v \in ListedValues, v2 \in ListedValues :
               HoldsExactly(DefinedTwice(Metadata, k, v, k2, v2, last.target),
                   k, v, k2, v2, last.target)

\* Y, the last key left on B of X and Y defined in that order, was deleted:
\* defines of Y and then X now list Y before X
C14_Witness ==
    /\ Completed("deleteMetadata")
    /\ last.target = Obj("B")
    /\ last.key = Str("Y")
    /\ OrdinaryOwnMetadataKeys(pre, Obj("B"), Undefined) = <<Str("Y")>>
    /\ OrdinaryGetOwnMetadata(pre, Str("Y"), Obj("B"), Undefined) = Str("w")
    /\ Obj("B").id \notin DOMAIN Metadata
    /\ Obj("A").id \in DOMAIN Metadata
    /\ OrdinaryOwnMetadataKeys(
           DefinedTwice(Metadata, Str("Y"), Str("v"), Str("X"), Str("v"), Obj("B")),
           Obj("B"), Undefined) = <<Str("Y"), Str("X")>>

\* pp being the prototype of T.prototype: it is null or Object.prototype, or
\* the constructor it declares is no function or is T
NoHeritageVia(T, pp) ==
    \/ pp = Null
    \/ pp = ObjectPrototype
    \/ TypeOf(Get(pp, "constructor")) # "function"
    \/ Get(pp, "constructor") = T

\* T is a function with the predecessor Function.prototype whose heritage
\* cannot be determined
NoHeritage(T) ==
    /\ TypeOf(T) = "function"
    /\ GetPrototypeOf(T) = functionPrototype
    /\ Get(T, "prototype").tag = "Object"
    /\ NoHeritageVia(T, GetPrototypeOf(Get(T, "prototype")))

\* The chain of a function without heritage, were its parent
\* Function.prototype
RootChain(T) == <<T, functionPrototype, ObjectPrototype>>

\* What the last chain read returns when it walks the chain
ReadAlong(chain) ==
    /\ last.op = "hasMetadata" =>
           last.ret = Bool(OwnersOn(chain, pre, last.key, LastMember) # {})
    /\ last.op = "getMetadata" =>
           last.ret = NearestValue(chain, OwnersOn(chain, pre, last.key, LastMember),
                          pre, last.key, LastMember)
    /\ last.op = "getMetadataKeys" =>
           \A k \in AllMetadataKeys :
               Seen(last.keys, k) <=> OwnersOn(chain, pre, k, LastMember) # {}

\* C15 as the specification states it: for a function without heritage
\* parent resolution gives null, so has, get and keys consult the target's
\* own metadata only.
C15_NoHeritageNoParent ==
    (last.op \in ChainReads /\ ~last.threw /\ NoHeritage(last.target)) =>
        /\ OrdinaryGetPrototypeOf(last.target) = Null
        /\ ReadAlong(<<last.target>>)

\* C15, amended: for a function whose predecessor is Function.prototype and
\* whose heritage cannot be determined (the prototype of its prototype
\* object is null or Object.prototype, or declares a constructor that is no
\* function or is the target itself) parent resolution gives that
\* predecessor, Function.prototype: has, get and keys consult the target's
\* own metadata, then the metadata of Function.prototype, then that of
\* Object.prototype.
C15_NoHeritageKeepsPredecessor ==
    /\ \A T \in AllTargets :
           NoHeritage(T) => OrdinaryGetPrototypeOf(T) = functionPrototype
    /\ (last.op \in ChainReads /\ ~last.threw /\ NoHeritage(last.target)) =>
           ReadAlong(RootChain(last.target))

\* get on S, whose prototype.__proto__.constructor is S itself, returned
\* the value that only Function.prototype owns
C15_Witness ==
    /\ Completed("getMetadata")
    /\ last.target = Obj("S")
    /\ NoHeritage(Obj("S"))
    /\ last.ret = Str("v")
    /\ ~OrdinaryHasOwnMetadata(Metadata, last.key, Obj("S"), Undefined)
    /\ OrdinaryHasOwnMetadata(Metadata, last.key, Obj("Fp"), Undefined)
    /\ ~OrdinaryHasOwnMetadata(Metadata, last.key, Obj("Op"), Undefined)

\* T is a function with the predecessor Function.prototype and pp, the
\* prototype of T.prototype, declares a constructor that is a function
\* other than T
HeritageVia(T, pp) ==
    /\ pp \notin {Null, ObjectPrototype}
    /\ TypeOf(Get(pp, "constructor")) = "function"
    /\ Get(pp, "constructor") # T

HasHeritage(T) ==
    /\ TypeOf(T) = "function"
    /\ GetPrototypeOf(T) = functionPrototype
    /\ Get(T, "prototype").tag = "Object"
    /\ HeritageVia(T, GetPrototypeOf(Get(T, "prototype")))

\* The constructor that the prototype of T.prototype declares
DeclaredConstructor(T) == Get(GetPrototypeOf(Get(T, "prototype")), "constructor")

\* The parent the three determinable cases give
DeterminedParent(T) ==
    IF TypeOf(T) # "function" THEN GetPrototypeOf(T)
    ELSE IF GetPrototypeOf(T) # functionPrototype THEN GetPrototypeOf(T)
    ELSE DeclaredConstructor(T)

Determinable(T) ==
    \/ TypeOf(T) # "function"
    \/ GetPrototypeOf(T) # functionPrototype
    \/ HasHeritage(T)

\* C16: the parent of a target that is no function is its ordinary
\* predecessor; the parent of a function whose predecessor is not
\* Function.prototype is that predecessor; the parent of a function whose
\* predecessor is Function.prototype and whose prototype object has a
\* prototype, neither null nor Object.prototype, declaring a callable
\* constructor C other than the target, is C.  has, get and keys go from
\* the target's own metadata on to that parent.
C16_DeterminedParents ==
    /\ \A T \in AllTargets :
           Determinable(T) => OrdinaryGetPrototypeOf(T) = DeterminedParent(T)
    /\ (last.op \in ChainReads /\ ~last.threw /\ Determinable(last.target)) =>
           ReadAlong(<<last.target>> \o ParentChain(DeterminedParent(last.target)))

\* get on E, linked to A only through E.prototype, returned A's value
C16_Witness ==
    /\ Completed("getMetadata")
    /\ last.target = Obj("E")
    /\ HasHeritage(Obj("E"))
    /\ GetPrototypeOf(Obj("E")) = functionPrototype
    /\ DeterminedParent(Obj("E")) = Obj("A")
    /\ last.ret = Str("v")
    /\ OrdinaryHasOwnMetadata(Metadata, last.key, Obj("A"), Undefined)
    /\ ~OrdinaryHasOwnMetadata(Metadata, last.key, Obj("Fp"), Undefined)
    /\ ~OrdinaryHasOwnMetadata(Metadata, last.key, Obj("Op"), Undefined)

\* No TargetEntry of md is empty and no MetadataMap in it is empty
NoEmptyContainer(md) ==
    \A t \in DOMAIN md :
        /\ DOMAIN md[t] # {}
        /\ \A m \in DOMAIN md[t] : MapSize(md[t][m]) > 0

ReadWrappers ==
    { "hasMetadata", "hasOwnMetadata", "getMetadata", "getOwnMetadata",
      "getMetadataKeys", "getOwnMetadataKeys" }

\* C17: in every state reached by defines, deletes, calls of the metadata
\* decorator and reads, the registry holds no empty TargetEntry and no
\* empty MetadataMap, so a container exists only for a (target, member)
\* that owns a key; a read leaves the registry as it was, creating none.
C17_NoEmptyContainers ==
    /\ NoEmptyContainer(Metadata)
    /\ last.op \in ReadWrappers => Metadata = pre

\* A delete removed the last key of (B, "m"): that map is gone while B
\* keeps its entry for the metadata it owns without member
C17_Witness ==
    /\ Completed("deleteMetadata")
    /\ last.ret = True
    /\ last.target = Obj("B")
    /\ LastMember = Str("m")
    /\ MapSize(OwnMetadata(pre, Obj("B"), Str("m")).map) = 1
    /\ Obj("B").id \in DOMAIN Metadata
    /\ DOMAIN Metadata[Obj("B").id] = {Undefined}

\* The slot each supplied member key addresses: its string form, the
\* symbol itself, or the slot of the absent key
SlotOf ==
    [ p \in SuppliedMembers |->
        CASE p = Undefined -> Undefined
          [] p = Num("1")  -> Str("1")
          [] p = Str("1")  -> Str("1")
          [] p = Obj("KP") -> Str("1")
          [] p = Obj("KB") -> Str("m")
          [] p = Str("m")  -> Str("m")
          [] p = Sym("y")  -> Sym("y") ]

\* C18: a store wrapper addresses the MetadataMap of the member key's
\* string form (1 and "1" and an object whose primitive form is 1 address
\* the same map, an object goes by its to-primitive result with the string
\* hint), of the symbol itself for a symbol, and of the absent key, a slot
\* apart from every string and symbol, when none is given; metadata keys
\* are used as given, 1 and "1" being two keys.
C18_MemberKeysNormalised ==
    /\ Completed("defineMetadata") =>
           /\ \A p \in SuppliedMembers :
                  getOwnMetadata(Metadata, last.key, last.target, p).ret
                      = (IF SlotOf[p] = SlotOf[last.member] THEN last.value
                         ELSE getOwnMetadata(pre, last.key, last.target, p).ret)
           /\ \A p \in SuppliedMembers, k \in LookalikeKeys \ {last.key} :
                  hasOwnMetadata(Metadata, k, last.target, p).ret
                      = hasOwnMetadata(pre, k, last.target, p).ret
    /\ last.op \in {"getOwnMetadata", "hasOwnMetadata", "deleteMetadata"} =>
           /\ ~last.threw
           /\ last.ret = (IF last.op = "getOwnMetadata"
                          THEN OrdinaryGetOwnMetadata(pre, last.key, last.target,
                                   SlotOf[last.member])
                          ELSE Bool(OrdinaryHasOwnMetadata(pre, last.key, last.target,
                                        SlotOf[last.member])))
    /\ \A p \in SuppliedMembers : WrapperPropertyKey(p) = Returned(SlotOf[p])

\* Metadata with key 1 defined under member 1 is read back under "1" and
\* under the object with primitive form 1, not under the key "1" and not
\* without member
C18_Witness ==
    /\ Completed("defineMetadata")
    /\ last.member = Num("1")
    /\ last.key = Num("1")
    /\ pre = EmptyRegistry
    /\ getOwnMetadata(Metadata, Num("1"), Obj("A"), Str("1")).ret = Str("v")
    /\ getOwnMetadata(Metadata, Num("1"), Obj("A"), Obj("KP")).ret = Str("v")
    /\ getOwnMetadata(Metadata, Str("1"), Obj("A"), Str("1")).ret = Undefined
    /\ getOwnMetadata(Metadata, Num("1"), Obj("A"), Undefined).ret = Undefined

\* C19: when the statements of a define and of a delete on the same
\* (target, member) interleave, the define can end with its key not in the
\* registry, the entry having gone into a container the delete pruned; a
\* define that ran with no step of a delete between its steps, and did not
\* start in the middle of a delete, ends with its key in the registry.
C19_LostOnlyWhenInterleaved ==
    (threads.definer.pc = "done" /\ ~threads.definer.overlapped) =>
        threads.definer.owned

\* The define of k2 has ended and the delete of k1 has returned true, yet
\* the registry is empty: the delete pruned the map the define wrote to
C19_Witness ==
    /\ threads.definer.pc = "done"
    /\ threads.definer.key = Str("k2")
    /\ ~threads.definer.owned
    /\ threads.definer.overlapped
    /\ threads.deleter.pc = "done"
    /\ threads.deleter.key = Str("k1")
    /\ threads.deleter.ret = True
    /\ Metadata = EmptyRegistry

\* The four reads of key K on (T, no member) agree with the two key lists
ReadsAgree(K, T) ==
    /\ hasMetadata(Metadata, K, T, Undefined).ret
           = Bool(Seen(getMetadataKeys(Metadata, T, Undefined).keys, K))
    /\ hasOwnMetadata(Metadata, K, T, Undefined).ret
           = Bool(Seen(getOwnMetadataKeys(Metadata, T, Undefined).keys, K))
    /\ hasOwnMetadata(Metadata, K, T, Undefined).ret = True =>
           /\ hasMetadata(Metadata, K, T, Undefined).ret = True
           /\ getMetadata(Metadata, K, T, Undefined).ret
                  = getOwnMetadata(Metadata, K, T, Undefined).ret

\* C20: in every state, for every target T and key K, the member being
\* the absent one, has(K, T) is true exactly when K is in keys(T),
\* hasOwn(K, T) exactly when K is in ownKeys(T), hasOwn implies has, and
\* where hasOwn is true get(K, T) is getOwn(K, T).
C20_ReadsAgree ==
    \A T \in KeyTargets, K \in ListedKeys : ReadsAgree(K, T)

\* B owns X with a value other than the one parent A has for X, and
\* inherits Z from A: get on B gives B's X, has finds Z that hasOwn does not
C20_Witness ==
    /\ Idle
    /\ getOwnMetadata(Metadata, Str("X"), Obj("B"), Undefined).ret = Str("v")
    /\ getOwnMetadata(Metadata, Str("X"), Obj("A"), Undefined).ret = Str("w")
    /\ getMetadata(Metadata, Str("X"), Obj("B"), Undefined).ret = Str("v")
    /\ hasOwnMetadata(Metadata, Str("Z"), Obj("B"), Undefined).ret = False
    /\ hasMetadata(Metadata, Str("Z"), Obj("B"), Undefined).ret = True
    /\ getMetadataKeys(Metadata, Obj("B"), Undefined).keys = <<Str("X"), Str("Z")>>
    /\ hasMetadata(Metadata, Str("Y"), Obj("B"), Undefined).ret = False

=============================================================================
